---- MODULE Spec2Model ----
(***************************************************************************)
(* Model of package validation (validation.go): Validate runs a map of     *)
(* per-path Validators against a decoded JSON document and returns a       *)
(* destination map together with the list of DataErrors.                   *)
(*                                                                         *)
(* One step of the model is one iteration of Validate's range loop; the    *)
(* iteration order of a Go map is unspecified, so the next path is chosen  *)
(* nondeterministically among those not yet visited.  A Go panic ends the  *)
(* call without a result (pc = "panic").                                   *)
(***************************************************************************)
EXTENDS Integers, Sequences, FiniteSets, TLC

VARIABLES validators, _map, opt, dest, errors, todo, pc, pass, prev

vars == <<validators, _map, opt, dest, errors, todo, pc, pass, prev>>

(***************************************************************************)
(* Bounds of the model.                                                    *)
(***************************************************************************)
\* json.Number values range over 0..MaxNum
MaxNum == 3
\* []interface{} values have at most MaxSeqLen elements
MaxSeqLen == 2

(***************************************************************************)
(* Constants of the package.                                               *)
(***************************************************************************)
UNAUTHENTICATED == 0
USER == 1
OWNER == 2
ADMIN == 3
NONE == 4

INIT == 0
GET == 1
SET == 2

Roles == {UNAUTHENTICATED, USER, OWNER, ADMIN, NONE}
Usages == {INIT, GET, SET}

(***************************************************************************)
(* Decoded values (interface{}): nil, string, bool, json.Number,           *)
(* []interface{} and map[string]interface{}.                               *)
(***************************************************************************)
Nil == [kind |-> "nil"]
Str(s) == [kind |-> "string", s |-> s]
Bool(b) == [kind |-> "bool", b |-> b]
Num(n) == [kind |-> "json.Number", n |-> n]
Slice(es) == [kind |-> "slice", elems |-> es]
Map(m) == [kind |-> "map", m |-> m]

\* the empty map[string]interface{}
EmptyMap == [k \in {} |-> Nil]

\* reflect.TypeOf(v).String() for a non-nil v
TypeString(v) ==
  CASE v.kind = "slice" -> "[]interface {}"
    [] v.kind = "map" -> "map[string]interface {}"
    [] OTHER -> v.kind

(***************************************************************************)
(* Strings of the model and their characters.                              *)
(***************************************************************************)
Hex24 == "507f1f77bcf86cd799439011"
Hex23 == "507f1f77bcf86cd79943901"
NonHex24 == "507f1f77bcf86cd79943901z"

Chars(s) ==
  CASE s = Hex24 -> <<"5","0","7","f","1","f","7","7","b","c","f","8",
                      "6","c","d","7","9","9","4","3","9","0","1","1">>
    [] s = Hex23 -> <<"5","0","7","f","1","f","7","7","b","c","f","8",
                      "6","c","d","7","9","9","4","3","9","0","1">>
    [] s = NonHex24 -> <<"5","0","7","f","1","f","7","7","b","c","f","8",
                         "6","c","d","7","9","9","4","3","9","0","1","z">>
    [] s = "k" -> <<"k">>
    [] s = "" -> <<>>

LowerHexDigits == {"0","1","2","3","4","5","6","7","8","9","a","b","c","d","e","f"}
HexDigits == LowerHexDigits \cup {"A","B","C","D","E","F"}

\* bson.IsObjectIdHex: 24 characters that decode as hexadecimal
IsObjectIdHex(s) ==
  LET cs == Chars(s)
  IN  Len(cs) = 24 /\ \A i \in 1..Len(cs) : cs[i] \in HexDigits

(***************************************************************************)
(* Patterns of the model: none, a lower-case hexadecimal word, and one     *)
(* that does not compile.                                                  *)
(***************************************************************************)
NoRegexp == ""
HexRegexp == "^[0-9a-f]+$"
BadRegexp == "("

\* Validator.ExecRegexp: regexp.Compile, then MatchString
ExecRegexp(v, str) ==
  CASE v.Regexp = BadRegexp -> [ok |-> FALSE, err |-> TRUE]
    [] v.Regexp = NoRegexp -> [ok |-> TRUE, err |-> FALSE]
    [] v.Regexp = HexRegexp ->
         [ok |-> LET cs == Chars(str)
                 IN  Len(cs) > 0 /\ \A i \in 1..Len(cs) : cs[i] \in LowerHexDigits,
          err |-> FALSE]

\* Validator.CheckBoundaries
CheckBoundaries(v, value) ==
  value >= v.Boundaries.Min /\ value <= v.Boundaries.Max

\* CheckRights with a strict comparison
CheckRights_Strict(v, userRights, usage) ==
  userRights > usage

\* Validator.CheckRights
CheckRights(v, userRights, usage) ==
  userRights >= usage

(***************************************************************************)
(* Type descriptors (Validator.Type) and the string slicing done on them.  *)
(***************************************************************************)
Types == {"string", "bool", "json.Number", "bson.ObjectId",
          "[]string", "[]bson.ObjectId",
          "map[string]string", "map[bson.ObjectId]string"}

\* validator.Type[0:2]
Prefix2(t) ==
  CASE t = "string" -> "st"
    [] t = "bool" -> "bo"
    [] t = "json.Number" -> "js"
    [] t = "bson.ObjectId" -> "bs"
    [] t \in {"[]string", "[]bson.ObjectId"} -> "[]"
    [] t \in {"map[string]string", "map[bson.ObjectId]string"} -> "ma"

\* validator.Type[2:]
Suffix2(t) ==
  CASE t = "string" -> "ring"
    [] t = "bool" -> "ol"
    [] t = "json.Number" -> "on.Number"
    [] t = "bson.ObjectId" -> "on.ObjectId"
    [] t = "[]string" -> "string"
    [] t = "[]bson.ObjectId" -> "bson.ObjectId"
    [] t = "map[string]string" -> "p[string]string"
    [] t = "map[bson.ObjectId]string" -> "p[bson.ObjectId]string"

\* strings.SplitAfter(validator.Type, "]")
SplitAfterBracket(t) ==
  CASE t \in {"string", "bool", "json.Number", "bson.ObjectId"} -> <<t>>
    [] t = "[]string" -> <<"[]", "string">>
    [] t = "[]bson.ObjectId" -> <<"[]", "bson.ObjectId">>
    [] t = "map[string]string" -> <<"map[string]", "string">>
    [] t = "map[bson.ObjectId]string" -> <<"map[bson.ObjectId]", "string">>

(***************************************************************************)
(* DataError.  Value is the offending value, or a text built from a type   *)
(* name; it is nil when the error carries none.                            *)
(***************************************************************************)
Text(parts) == [kind |-> "text", parts |-> parts]

DataError(reason, field, value) ==
  [Type |-> "Validation error", Reason |-> reason, Field |-> field, Value |-> value]

(***************************************************************************)
(* Result of one check: ok is the returned bool, errs the errors appended  *)
(* to *errors, panic tells that the check panicked instead of returning.   *)
(***************************************************************************)
Passed == [ok |-> TRUE, panic |-> FALSE, errs |-> <<>>]
Failed(e) == [ok |-> FALSE, panic |-> FALSE, errs |-> <<e>>]
Panicked == [ok |-> FALSE, panic |-> TRUE, errs |-> <<>>]

Min(S) == CHOOSE x \in S : \A y \in S : x <= y

\* checkType, case reflect.Slice
checkTypeSlice(validator, valueToTest) ==
  LET array == Prefix2(validator.Type)
      _type == Suffix2(validator.Type)
      es == valueToTest.elems
      \* the elements at which the range loop does not simply go on
      stops == {i \in 1..Len(es) : es[i] = Nil \/ TypeString(es[i]) # _type}
  IN  IF array # "[]"
      THEN Failed(DataError("Type mismatch", validator.Field,
                            Text(<<TypeString(valueToTest)>>)))
      ELSE IF stops = {}
      THEN Passed
      ELSE LET value == es[Min(stops)]
           IN  IF value = Nil
               THEN Panicked  \* reflect.TypeOf(nil).String()
               ELSE IF /\ value.kind = "string"
                       /\ _type = "bson.ObjectId"
                       /\ IsObjectIdHex(value.s)
               THEN Passed    \* return true, the remaining elements are not read
               ELSE Failed(DataError("Type mismatch", validator.Field,
                                     Text(<<"[] contains ", TypeString(value)>>)))

\* checkType, case reflect.Map: one pass of the loop body for one key
checkTypeMapEntry(validator, key, value) ==
  LET parts == SplitAfterBracket(validator.Type)
  IN  IF parts[1] = "map[bson.ObjectId]" /\ ~IsObjectIdHex(key)
      THEN Failed(DataError("Type mismatch", validator.Field,
             Text(<<"one of the indexes at least is not valid ObjectId: ", key>>)))
      ELSE IF value = Nil \/ Len(parts) < 2
      THEN Panicked  \* nil vtype, or parts[1] out of range
      ELSE IF TypeString(value) # parts[2]
      THEN Failed(DataError("Type mismatch", validator.Field,
             Text(<<"one of the map values is of type: ", TypeString(value)>>)))
      ELSE Passed

\* checkType, case reflect.Map: the entries are visited in an unspecified
\* order and the first one that does not pass ends the check
checkTypeMap(validator, valueToTest) ==
  LET m == valueToTest.m
      stops == {k \in DOMAIN m : checkTypeMapEntry(validator, k, m[k]) # Passed}
  IN  IF stops = {}
      THEN {Passed}
      ELSE {checkTypeMapEntry(validator, k, m[k]) : k \in stops}

\* checkType, default case
checkTypeScalar(validator, valueToTest) ==
  IF valueToTest # Nil /\ TypeString(valueToTest) # validator.Type
  THEN IF TypeString(valueToTest) = "string" /\ IsObjectIdHex(valueToTest.s)
       THEN Passed
       ELSE Failed(DataError("Type mismatch", validator.Field,
                             Text(<<TypeString(valueToTest)>>)))
  ELSE Passed

\* checkType: the set of its possible results
checkType(validator, valueToTest) ==
  CASE valueToTest.kind = "slice" -> {checkTypeSlice(validator, valueToTest)}
    [] valueToTest.kind = "map" -> checkTypeMap(validator, valueToTest)
    [] OTHER -> {checkTypeScalar(validator, valueToTest)}

(***************************************************************************)
(* Custom tests of the model: none, or one that refuses every bool.        *)
(***************************************************************************)
NoCustomTest == "nil"
RefuseBool == "refuseBool"

CustomTest(validator, value) ==
  IF validator.CustomTest = RefuseBool /\ value.kind = "bool"
  THEN [ok |-> FALSE, err |-> DataError("Custom", validator.Field, value)]
  ELSE [ok |-> TRUE, err |-> Nil]

\* checkValue
checkValue(validator, valueToTest) ==
  LET custom ==
        IF validator.CustomTest # NoCustomTest
           /\ ~CustomTest(validator, valueToTest).ok
        THEN Failed(CustomTest(validator, valueToTest).err)
        ELSE Passed
  IN  CASE valueToTest.kind = "string" /\ validator.Regexp # NoRegexp ->
             LET r == ExecRegexp(validator, valueToTest.s)
             IN  IF r.err
                 THEN Panicked  \* log.Panic(err)
                 ELSE IF ~r.ok
                 THEN Failed(DataError("Regex not match", validator.Field, valueToTest))
                 ELSE custom
        [] valueToTest.kind = "json.Number" ->
             IF ~CheckBoundaries(validator, valueToTest.n)
             THEN Failed(DataError("Out of boundaries", validator.Field, valueToTest))
             ELSE custom
        [] OTHER -> custom

\* checkRights
checkRights(validator, usage, userRights) ==
  IF ~CheckRights(validator, userRights, validator.Rights[usage])
  THEN Failed(DataError("Insufficient rights", validator.Field, Nil))
  ELSE Passed

(***************************************************************************)
(* The path accessor (package tools).  A path is split at its dots; a read *)
(* of a missing key yields nil.  What the accessor does when the path runs *)
(* through a value that is no map is not fixed by this package: it may     *)
(* report an error or find nothing.                                        *)
(***************************************************************************)
Paths == {"a", "b.c"}

\* strings.Split(path, ".")
Split(path) ==
  CASE path = "a" -> <<"a">>
    [] path = "b.c" -> <<"b", "c">>

RECURSIVE Lookup(_, _)
Lookup(m, segs) ==
  IF segs[1] \notin DOMAIN m
  THEN Nil
  ELSE IF Len(segs) = 1
  THEN m[segs[1]]
  ELSE IF m[segs[1]].kind # "map"
  THEN Nil
  ELSE Lookup(m[segs[1]].m, Tail(segs))

RECURSIVE Blocked(_, _)
Blocked(m, segs) ==
  /\ Len(segs) > 1
  /\ segs[1] \in DOMAIN m
  /\ m[segs[1]] # Nil
  /\ \/ m[segs[1]].kind # "map"
     \/ /\ m[segs[1]].kind = "map"
        /\ Blocked(m[segs[1]].m, Tail(segs))

RECURSIVE Put(_, _, _)
Put(m, segs, value) ==
  LET key == segs[1]
      sub == IF key \in DOMAIN m /\ m[key].kind = "map" THEN m[key].m ELSE EmptyMap
      new == IF Len(segs) = 1 THEN value ELSE Map(Put(sub, Tail(segs), value))
  IN  [k \in DOMAIN m \cup {key} |-> IF k = key THEN new ELSE m[k]]

\* tools.ReadDeep: the set of its possible results
ReadDeep(m, path) ==
  {[value |-> Lookup(m, Split(path)), err |-> FALSE]}
  \cup IF Blocked(m, Split(path)) THEN {[value |-> Nil, err |-> TRUE]} ELSE {}

\* tools.WriteDeep: the set of its possible results
WriteDeep(m, path, value) ==
  {[m |-> Put(m, Split(path), value), err |-> FALSE]}
  \cup IF Blocked(m, Split(path)) THEN {[m |-> m, err |-> TRUE]} ELSE {}

(***************************************************************************)
(* Default functions of the model: none, or one that returns its argument. *)
(***************************************************************************)
NoDefault == "nil"
FromArgs == "fromArgs"

Default(validator, args) == args

(***************************************************************************)
(* Validate, one iteration of the range loop.                              *)
(***************************************************************************)
\* the test "value is nil or is a slice with len == 0"
IsAbsent(value) ==
  value = Nil \/ (value.kind = "slice" /\ Len(value.elems) = 0)

\* HandleAbsent with the Default applied before IsRequired is looked at
HandleAbsent_DefaultFirst(validator, path, d, errs, o) ==
  IF o.Usage = INIT
  THEN IF validator.Default # NoDefault
       THEN {[dest |-> w.m, errors |-> errs, panic |-> w.err] :
               w \in WriteDeep(d, path, Default(validator, o.Args))}
       ELSE IF validator.IsRequired
       THEN {[dest |-> d,
              errors |-> Append(errs, DataError("Required", path, Nil)),
              panic |-> FALSE]}
       ELSE {[dest |-> d, errors |-> errs, panic |-> FALSE]}
  ELSE {[dest |-> d, errors |-> errs, panic |-> FALSE]}

\* HandleAbsent without the test of the usage
HandleAbsent_AnyUsage(validator, path, d, errs, o) ==
  IF validator.IsRequired
  THEN {[dest |-> d,
         errors |-> Append(errs, DataError("Required", path, Nil)),
         panic |-> FALSE]}
  ELSE IF validator.Default # NoDefault
  THEN {[dest |-> w.m, errors |-> errs, panic |-> w.err] :
          w \in WriteDeep(d, path, Default(validator, o.Args))}
  ELSE {[dest |-> d, errors |-> errs, panic |-> FALSE]}

\* the branch taken for an absent value: the possible (dest, errors, panic)
HandleAbsent(validator, path, d, errs, o) ==
  IF o.Usage = INIT
  THEN IF validator.IsRequired
       THEN {[dest |-> d,
              errors |-> Append(errs, DataError("Required", path, Nil)),
              panic |-> FALSE]}
       ELSE IF validator.Default # NoDefault
       THEN {[dest |-> w.m, errors |-> errs, panic |-> w.err] :
               w \in WriteDeep(d, path, Default(validator, o.Args))}
       ELSE {[dest |-> d, errors |-> errs, panic |-> FALSE]}
  ELSE {[dest |-> d, errors |-> errs, panic |-> FALSE]}

\* CopyToDest with the flat key for every usage
CopyToDest_AlwaysFlat(d, path, value, usage) ==
  {[m |-> [k \in DOMAIN d \cup {path} |-> IF k = path THEN value ELSE d[k]],
    err |-> FALSE]}

\* "copy value to dest": a flat key for SET, a deep write otherwise
CopyToDest(d, path, value, usage) ==
  IF usage = SET
  THEN {[m |-> [k \in DOMAIN d \cup {path} |-> IF k = path THEN value ELSE d[k]],
         err |-> FALSE]}
  ELSE WriteDeep(d, path, value)

\* CheckField with the rights checked also after a failed value check
CheckField_NoShortCircuit(validator, value, o) ==
  UNION {
    IF ~t.ok
    THEN {t}
    ELSE LET v == checkValue(validator, value)
             r == checkRights(validator, o.Usage, o.UserRights)
         IN  IF v.panic
             THEN {v}
             ELSE {[ok |-> v.ok /\ r.ok, panic |-> FALSE, errs |-> v.errs \o r.errs]}
    : t \in checkType(validator, value) }

\* the three checks of a present value, in sequence: the possible results
CheckField(validator, value, o) ==
  UNION {
    IF ~t.ok
    THEN {t}
    ELSE LET v == checkValue(validator, value)
         IN  IF ~v.ok
             THEN {v}
             ELSE {checkRights(validator, o.Usage, o.UserRights)}
    : t \in checkType(validator, value) }

\* the branch taken for a present value: the possible (dest, errors, panic)
HandlePresent(validator, path, value, d, errs, o) ==
  UNION {
    IF w.err
    THEN {[dest |-> d, errors |-> errs, panic |-> TRUE]}
    ELSE {[dest |-> w.m, errors |-> errs \o c.errs, panic |-> c.panic] :
            c \in CheckField(validator, value, o)}
    : w \in CopyToDest(d, path, value, o.Usage) }

\* the body of the range loop for one path
LoopBody(validator, path, m, d, errs, o) ==
  UNION {
    IF r.err
    THEN {[dest |-> d, errors |-> errs, panic |-> TRUE]}
    ELSE IF IsAbsent(r.value)
    THEN HandleAbsent(validator, path, d, errs, o)
    ELSE HandlePresent(validator, path, r.value, d, errs, o)
    : r \in ReadDeep(m, path) }

Iterate(path) ==
  /\ pc = "loop"
  /\ path \in todo
  /\ \E res \in LoopBody(validators[path], path, _map, dest, errors, opt) :
       /\ dest' = res.dest
       /\ errors' = res.errors
       /\ todo' = todo \ {path}
       /\ pc' = IF res.panic THEN "panic"
                ELSE IF todo' = {} THEN "done" ELSE "loop"
  /\ UNCHANGED <<validators, _map, opt, pass, prev>>

\* a GET call that returned no error is followed by a GET call on its
\* output, with the same validators and the same or higher rights
Revalidate ==
  /\ pc = "done"
  /\ pass = 1
  /\ opt.Usage = GET
  /\ errors = <<>>
  /\ \E r \in Roles :
       /\ r >= opt.UserRights
       /\ opt' = [opt EXCEPT !.UserRights = r]
  /\ _map' = dest
  /\ prev' = dest
  /\ dest' = EmptyMap
  /\ errors' = <<>>
  /\ todo' = DOMAIN validators
  /\ pc' = "loop"
  /\ pass' = 2
  /\ UNCHANGED validators

(***************************************************************************)
(* The validators, documents and options of the model.                     *)
(***************************************************************************)
Boundaries(min, max) == [Min |-> min, Max |-> max]

\* the zero value of the Boundaries struct: no boundaries were configured
NoBoundaries == Boundaries(0, 0)
SomeBoundaries == Boundaries(1, MaxNum - 1)

Rights(i, g, s) == [u \in Usages |-> CASE u = INIT -> i [] u = GET -> g [] u = SET -> s]

OpenRights == Rights(UNAUTHENTICATED, UNAUTHENTICATED, UNAUTHENTICATED)
ScenarioRights == Rights(ADMIN, USER, OWNER)
ClosedRights == Rights(OWNER, NONE, USER)

Validator(type, regexp, rights, boundaries, isRequired, default, customTest) ==
  [Type |-> type, Field |-> "", Regexp |-> regexp, Rights |-> rights,
   Boundaries |-> boundaries, IsRequired |-> isRequired,
   Default |-> default, CustomTest |-> customTest]

\* a validator with nothing but its type
Plain(type) ==
  Validator(type, NoRegexp, OpenRights, NoBoundaries, FALSE, NoDefault, NoCustomTest)

Case(validator, value) == [validator |-> validator, value |-> value]

Strings == {Str(Hex24), Str(Hex23), Str(NonHex24)}
Numbers == {Num(n) : n \in 0..MaxNum}
Scalars == Strings \cup {Bool(TRUE), Num(0)}

Elements == {Str(Hex24), Bool(TRUE), Nil}
Slices == {Slice(es) : es \in UNION {[1..n -> Elements] : n \in 1..MaxSeqLen}}

Maps ==
  {Map(EmptyMap)}
  \cup {Map([k \in {key} |-> e]) : key \in {"k", Hex24}, e \in Elements}
  \cup {Map([k \in {"k", Hex24} |-> IF k = "k" THEN Nil ELSE Bool(TRUE)])}

ScalarTypes == {"string", "bool", "json.Number", "bson.ObjectId"}
SliceTypes == {"[]string", "[]bson.ObjectId"}
MapTypes == {"map[string]string", "map[bson.ObjectId]string"}

AbsentCases ==
  {Case(Validator("[]string", NoRegexp, ScenarioRights, NoBoundaries, req, dflt, NoCustomTest), v) :
     req \in BOOLEAN, dflt \in {NoDefault, FromArgs}, v \in {Nil, Slice(<<>>)}}

TypeCases ==
  {Case(Plain(t), v) : t \in ScalarTypes,
     v \in Scalars \cup {Slice(<<Str(Hex24)>>), Map(EmptyMap), Map([k \in {"k"} |-> Str(Hex24)])}}
  \cup {Case(Plain(t), v) : t \in SliceTypes,
     v \in Slices \cup {Str(Hex24), Map([k \in {"k"} |-> Str(Hex24)])}}
  \cup {Case(Plain(t), v) : t \in MapTypes,
     v \in Maps \cup {Str(Hex24), Slice(<<Str(Hex24)>>)}}

ValueCases ==
  {Case(Validator("string", re, OpenRights, NoBoundaries, FALSE, NoDefault, NoCustomTest), v) :
     re \in {HexRegexp, BadRegexp}, v \in Strings}
  \cup {Case(Validator("json.Number", NoRegexp, OpenRights, b, FALSE, NoDefault, NoCustomTest), v) :
     b \in {NoBoundaries, SomeBoundaries}, v \in Numbers}
  \cup {Case(Validator(TypeString(v), NoRegexp, OpenRights, NoBoundaries, FALSE, NoDefault, RefuseBool), v) :
     v \in {Bool(TRUE), Str(Hex23)}}

RightsCases ==
  {Case(Validator(TypeString(v), HexRegexp, r, SomeBoundaries, FALSE, NoDefault, NoCustomTest), v) :
     r \in {ScenarioRights, ClosedRights}, v \in {Str(Hex23), Str(NonHex24), Num(1), Num(0), Bool(TRUE)}}
  \cup {Case(Validator("bool", NoRegexp, ClosedRights, NoBoundaries, FALSE, NoDefault, NoCustomTest),
             Str(NonHex24))}

Cases == AbsentCases \cup TypeCases \cup ValueCases \cup RightsCases

\* the document that holds value va at path "a" and vb at path "b.c";
\* key "z" is known to no validator
Document(va, vb) ==
  LET keys == {"z"} \cup (IF va = Nil THEN {} ELSE {"a"})
                    \cup (IF vb = Nil THEN {} ELSE {"b"})
  IN  [k \in keys |-> CASE k = "a" -> va
                        [] k = "b" -> Map([c \in {"c"} |-> vb])
                        [] k = "z" -> Bool(TRUE)]

\* a document in which "b" is no map, so that "b.c" runs through a scalar
ScalarParent(va) ==
  LET keys == {"b"} \cup (IF va = Nil THEN {} ELSE {"a"})
  IN  [k \in keys |-> CASE k = "a" -> va [] k = "b" -> Num(1)]

Init ==
  /\ \E ca \in Cases, cb \in Cases :
       /\ validators = [p \in Paths |->
            [(IF p = "a" THEN ca.validator ELSE cb.validator) EXCEPT !.Field = p]]
       /\ \/ _map = Document(ca.value, cb.value)
          \/ cb.value = Nil /\ _map = ScalarParent(ca.value)
  /\ opt \in [Usage : Usages, UserRights : Roles, Args : {Str(Hex23)}]
  /\ dest = EmptyMap
  /\ errors = <<>>
  /\ todo = Paths
  /\ pc = "loop"
  /\ pass = 1
  /\ prev = EmptyMap

Next ==
  \/ \E path \in Paths : Iterate(path)
  \/ Revalidate

Spec == Init /\ [][Next]_vars

(***************************************************************************)
(* Vocabulary of the properties.                                           *)
(***************************************************************************)
\* the value the document holds at a path of the schema
ValueAt(p) == Lookup(_map, Split(p))

Present(p) == ~IsAbsent(ValueAt(p))

\* the errors of the list that name a field, in the order of the list
FieldErrors(p) ==
  LET OfField(e) == e.Field = p
  IN  SelectSeq(errors, OfField)

HasError(p, reason) ==
  \E i \in 1..Len(errors) : errors[i].Field = p /\ errors[i].Reason = reason

\* the output holds the field: under its flat key or at its nested place
InOutput(p) == p \in DOMAIN dest \/ Lookup(dest, Split(p)) # Nil

Returned == pc = "done"

\* the outcome of the type and value checks of a present field
TypePasses(p) == \A t \in checkType(validators[p], ValueAt(p)) : t.ok
TypeFails(p) == \A t \in checkType(validators[p], ValueAt(p)) : ~t.ok /\ ~t.panic
ValuePasses(p) == checkValue(validators[p], ValueAt(p)).ok
ValueFails(p) ==
  LET v == checkValue(validators[p], ValueAt(p)) IN ~v.ok /\ ~v.panic
RightsPass(p) == opt.UserRights >= validators[p].Rights[opt.Usage]

DefaultApplies(p) ==
  /\ opt.Usage = INIT
  /\ ~validators[p].IsRequired
  /\ validators[p].Default # NoDefault

ValueReasons == {"Regex not match", "Out of boundaries", "Custom"}

(***************************************************************************)
(* C1: after Validate returns, the output holds a schema field only if the *)
(* field was present and produced no error, or was absent and received its *)
(* default; a present field that fails a check is not in the output.       *)
(***************************************************************************)
C1_OutputOnlyValidFields ==
  Returned =>
    \A p \in Paths :
      InOutput(p) =>
        \/ Present(p) /\ FieldErrors(p) = <<>>
        \/ ~Present(p) /\ DefaultApplies(p)

(***************************************************************************)
(* C2: a present field contributes at most one error, the one of the first *)
(* failing check in the order type, value, rights: a type failure leaves   *)
(* only a type error, a value failure only a value error; and the errors   *)
(* of a field do not depend on the other fields, so that the list holds    *)
(* exactly one error for each failed field.                                *)
(***************************************************************************)
C2_FirstFailureOnePerField ==
  Returned =>
    /\ \A p \in Paths :
         Present(p) =>
           /\ Len(FieldErrors(p)) <= 1
           /\ TypeFails(p) =>
                Len(FieldErrors(p)) = 1 /\ HasError(p, "Type mismatch")
           /\ (TypePasses(p) /\ ValueFails(p)) =>
                Len(FieldErrors(p)) = 1 /\ FieldErrors(p)[1].Reason \in ValueReasons
           /\ (TypePasses(p) /\ ValuePasses(p) /\ ~RightsPass(p)) =>
                Len(FieldErrors(p)) = 1 /\ HasError(p, "Insufficient rights")
           /\ (TypePasses(p) /\ ValuePasses(p) /\ RightsPass(p)) =>
                FieldErrors(p) = <<>>
    /\ Len(errors) = Cardinality({p \in Paths : FieldErrors(p) # <<>>})

C2_Witness ==
  /\ Returned
  /\ \E p, q \in Paths :
       /\ p # q
       /\ Present(p) /\ TypeFails(p) /\ ~RightsPass(p)
       /\ Present(q) /\ TypePasses(q) /\ ValueFails(q) /\ ~RightsPass(q)
       /\ Len(errors) = 2

(***************************************************************************)
(* C3: under INIT, a required field that is absent (nil or an empty slice) *)
(* yields exactly one "Required" error and is not in the output, also when *)
(* its validator has a Default.                                            *)
(***************************************************************************)
C3_RequiredMissing ==
  (Returned /\ opt.Usage = INIT) =>
    \A p \in Paths :
      (validators[p].IsRequired /\ ~Present(p)) =>
        /\ FieldErrors(p) = <<DataError("Required", p, Nil)>>
        /\ ~InOutput(p)

C3_Witness ==
  /\ Returned
  /\ opt.Usage = INIT
  /\ \E p \in Paths :
       /\ validators[p].IsRequired
       /\ validators[p].Default # NoDefault
       /\ ValueAt(p) = Slice(<<>>)
       /\ HasError(p, "Required")

(***************************************************************************)
(* C4: an absent field that is not both required and under INIT yields no  *)
(* error; it is in the output only under INIT, when not required and with  *)
(* a Default, and then the output holds Default(Args) at its path.  Under  *)
(* GET and SET an absent field is left out without an error.               *)
(***************************************************************************)
C4_AbsentField ==
  Returned =>
    \A p \in Paths :
      (~Present(p) /\ ~(validators[p].IsRequired /\ opt.Usage = INIT)) =>
        /\ FieldErrors(p) = <<>>
        /\ InOutput(p) <=> DefaultApplies(p)
        /\ InOutput(p) =>
             Lookup(dest, Split(p)) = Default(validators[p], opt.Args)

C4_Witness ==
  /\ Returned
  /\ \E p, q \in Paths :
       /\ ~Present(p) /\ DefaultApplies(p) /\ InOutput(p)
       /\ ~Present(q) /\ ~InOutput(q) /\ validators[q].Default = NoDefault

C4_WitnessGetSet ==
  /\ Returned
  /\ opt.Usage \in {GET, SET}
  /\ \E p \in Paths :
       /\ ~Present(p)
       /\ validators[p].IsRequired
       /\ validators[p].Default # NoDefault
       /\ ~InOutput(p)

(***************************************************************************)
(* C5: for a present field that passed the type and value checks, the      *)
(* rights check passes iff UserRights >= Rights[Usage]; otherwise exactly  *)
(* one "Insufficient rights" error names the field.  The check is monotone *)
(* in the caller's rights.                                                 *)
(***************************************************************************)
C5_RightsCheck ==
  Returned =>
    \A p \in Paths :
      /\ (Present(p) /\ TypePasses(p) /\ ValuePasses(p)) =>
           /\ RightsPass(p) => FieldErrors(p) = <<>>
           /\ ~RightsPass(p) =>
                FieldErrors(p) = <<DataError("Insufficient rights", p, Nil)>>
      /\ \A u \in Usages, r1, r2 \in Roles :
           (r1 <= r2 /\ checkRights(validators[p], u, r1).ok) =>
             checkRights(validators[p], u, r2).ok

C5_Witness ==
  /\ Returned
  /\ \E p, q \in Paths :
       /\ Present(p) /\ TypePasses(p) /\ ValuePasses(p)
       /\ opt.UserRights = validators[p].Rights[opt.Usage]
       /\ opt.UserRights > UNAUTHENTICATED
       /\ FieldErrors(p) = <<>>
       /\ Present(q) /\ TypePasses(q) /\ ValuePasses(q)
       /\ HasError(q, "Insufficient rights")

(***************************************************************************)
(* C6: every Validate call completes and returns its output and errors;    *)
(* no condition met on a field aborts the call.  Stated for the documents  *)
(* whose paths the accessor can follow, where an abort can only come from  *)
(* the checks of Validate itself.                                          *)
(***************************************************************************)
C6_NeverAborts ==
  (\A p \in Paths : ~Blocked(_map, Split(p))) => pc # "panic"

(***************************************************************************)
(* C7: a GET call on the output of a GET call that returned no error, with *)
(* the same validators and the same or higher rights, returns the same     *)
(* output and no error.                                                    *)
(***************************************************************************)
C7_GetIdempotent ==
  pass = 2 =>
    /\ pc # "panic"
    /\ Returned => (dest = prev /\ errors = <<>>)

C7_Witness ==
  /\ pass = 2
  /\ Returned
  /\ \A p \in Paths : InOutput(p)
  /\ _map # Document(ValueAt("a"), ValueAt("b.c"))

(***************************************************************************)
(* C8: for a type "[]D" and a slice, the type check passes only if every   *)
(* element passes against D (an ObjectId hex string passing when D is      *)
(* bson.ObjectId); a failing element at any position yields a type error.  *)
(* Stated for the slices that hold no nil.                                 *)
(***************************************************************************)
ElementPasses(d, e) ==
  /\ e # Nil
  /\ \/ TypeString(e) = d
     \/ d = "bson.ObjectId" /\ e.kind = "string" /\ IsObjectIdHex(e.s)

C8_EveryElementChecked ==
  Returned =>
    \A p \in Paths :
      LET v == ValueAt(p)
          t == validators[p].Type
      IN  (Present(p) /\ v.kind = "slice" /\ t \in SliceTypes
           /\ (\A i \in 1..Len(v.elems) : v.elems[i] # Nil)
           /\ \E i \in 1..Len(v.elems) : ~ElementPasses(Suffix2(t), v.elems[i]))
          => HasError(p, "Type mismatch")

(***************************************************************************)
(* C9: for a scalar type and a scalar value, the type check passes iff the *)
(* kind of the value is the type, or the type is bson.ObjectId and the     *)
(* value is a string of 24 hexadecimal characters.                         *)
(***************************************************************************)
C9_ScalarTypeCheck ==
  Returned =>
    \A p \in Paths :
      LET v == ValueAt(p)
          t == validators[p].Type
      IN  (Present(p) /\ v.kind \in {"string", "bool", "json.Number"}
           /\ t \in ScalarTypes)
          => (~HasError(p, "Type mismatch") <=>
                \/ v.kind = t
                \/ t = "bson.ObjectId" /\ v.kind = "string" /\ IsObjectIdHex(v.s))

(***************************************************************************)
(* C10: for a number that passed the type check, "Out of boundaries" is    *)
(* reported iff the validator has boundaries and the number is below Min   *)
(* or above Max; without boundaries no number is out of boundaries.        *)
(***************************************************************************)
C10_BoundariesInclusive ==
  Returned =>
    \A p \in Paths :
      LET v == ValueAt(p)
          b == validators[p].Boundaries
      IN  (Present(p) /\ v.kind = "json.Number" /\ TypePasses(p))
          => (HasError(p, "Out of boundaries") <=>
                (b # NoBoundaries /\ (v.n < b.Min \/ v.n > b.Max)))

====
